---- MODULE Spec2Model ----
(***************************************************************************)
(* Model of microsoft-graph-collector: the poll scheduler (pollEvery,      *)
(* getEvents), the Graph client (login, GetAlerts, makeRetryableHttpCall)  *)
(* and the consumer goroutine that writes the channel to the tmp artifact. *)
(*                                                                         *)
(* Time is counted in ticks of 1/TicksPerSecond second.  A formatted       *)
(* RFC 3339 timestamp is the number of whole seconds.                      *)
(* A record is <<cycle, k>>: the k-th value, in page order and in-page     *)
(* order, of the responses GetAlerts parsed in the given cycle.            *)
(***************************************************************************)
EXTENDS Integers, Sequences, FiniteSets, TLC

\* ---------------------------------------------------------------- bounds
\* cycles the scheduler is run for, and requests one GetAlerts call may issue
MaxCycles == 2
MaxPages == 2
\* requests of the GetAlerts call that is run alone
MaxFetchPages == 3
\* clock ticks per second
TicksPerSecond == 2
\* capacity of chnMessages (5000 in main.go:22), scaled down
maxMessages == 1

\* ------------------------------------------------------ program constants
initialBackoffMS == 1000
maxBackoffMS == 32000
backoffFactor == 2
rateLimitHttpCode == 429
StatusOK == 200
StatusPartialContent == 206

\* ---------------------------------------------------------------- values
Absent == "absent"
Links == {"L1", "L2"}
Statuses == {200, 206, 401, 429, 500, 503}
NoBody == [json |-> FALSE, access_token |-> "", value |-> 0, nextLink |-> Absent]
\* a JSON error object: parses, but carries neither token nor value nor link
ErrorBody == [json |-> TRUE, access_token |-> "", value |-> 0, nextLink |-> Absent]
GarbageBody == [json |-> FALSE, access_token |-> "", value |-> 1, nextLink |-> Absent]
TokenBody == [json |-> TRUE, access_token |-> "tok", value |-> 0, nextLink |-> Absent]
\* alert pages with the given numbers of values and next links, and a body
\* that does not parse
PageBodies(sizes, links) ==
    {GarbageBody} \cup [json : {TRUE}, access_token : {""}, value : sizes, nextLink : links]
\* the servers GetAlerts alone is run against, and the smaller ones the
\* scheduler is run against
AlertBodies == PageBodies(0..2, {Absent, ""} \cup Links)
SchedBodies == PageBodies(0..1, {"", "L1"})
\* time that passes between two cycles, in ticks
Intervals == {1, 2}

\* what httpClient.Do hands back: a response, or a transport error with a
\* nil response
NetErr == [err |-> TRUE, status |-> 0, body |-> NoBody]
Resp(s, b) == [err |-> FALSE, status |-> s, body |-> b]

NoResult == [kind |-> "none", status |-> 0, body |-> NoBody]

\* ---------------------------------------------------------------- state
VARIABLES
    \* scheduler goroutine (pollEvery / getEvents)
    pc, clock, now, cycle, LastPollTimestamp, stateFile, eventCount, done,
    \* GetAlerts locals
    AccessToken, count, response, tmpNextLink, params, toPush, pages, requests,
    \* channel, consumer goroutine, TmpWriter
    chnMessages, closed, cpc, message, file, WriteCount, prevFile, received,
    \* output dispatch
    handed, dispatch,
    \* observers
    outcome, cycleStart, prevCycle, lastCall,
    \* makeRetryableHttpCall, stepped
    hpc, backoffMs, sleeps, nreq, hresult, lastResp

schedVars == <<pc, clock, now, cycle, LastPollTimestamp, stateFile, eventCount, done>>
getVars == <<AccessToken, count, response, tmpNextLink, params, toPush, pages, requests>>
consVars == <<chnMessages, closed, cpc, message, file, WriteCount, prevFile, received>>
outVars == <<handed, dispatch>>
obsVars == <<outcome, cycleStart, prevCycle, lastCall>>
httpVars == <<hpc, backoffMs, sleeps, nreq, hresult, lastResp>>
vars == <<schedVars, getVars, consVars, outVars, obsVars, httpVars>>

\* ------------------------------------------------------------ time format
\* time.Time.Format(time.RFC3339): second precision, the fraction is dropped
FormatRFC3339Up(t) == (t + TicksPerSecond - 1) \div TicksPerSecond
FormatRFC3339(t) == t \div TicksPerSecond
\* time.Parse(time.RFC3339, s)
ParseRFC3339(s) == s * TicksPerSecond
\* t.UTC().Format("2006-01-02T15:04:05Z")
FormatUTC(t) == t \div TicksPerSecond

\* ------------------------------------------------- makeRetryableHttpCall
\* one pass of the for loop, after httpClient.Do returned resp with the
\* loop's backoffMs = b
HttpIterEager(b, resp) ==
    IF resp.err
    THEN [ret |-> TRUE, sleep |-> 0, backoff |-> b,
          result |-> [kind |-> "panic", status |-> 0, body |-> NoBody]]
    ELSE IF resp.status # StatusOK /\ resp.status # rateLimitHttpCode
    THEN [ret |-> TRUE, sleep |-> 0, backoff |-> b,
          result |-> [kind |-> "error", status |-> resp.status, body |-> resp.body]]
    ELSE IF b >= maxBackoffMS \/ resp.status # rateLimitHttpCode
    THEN [ret |-> TRUE, sleep |-> 0, backoff |-> b,
          result |-> [kind |-> "ok", status |-> resp.status, body |-> resp.body]]
    ELSE [ret |-> FALSE, sleep |-> b, backoff |-> b * backoffFactor,
          result |-> NoResult]

HttpIterLenient(b, resp) ==
    IF resp.err
    THEN [ret |-> TRUE, sleep |-> 0, backoff |-> b,
          result |-> [kind |-> "panic", status |-> 0, body |-> NoBody]]
    ELSE IF b > maxBackoffMS \/ resp.status # rateLimitHttpCode
    THEN [ret |-> TRUE, sleep |-> 0, backoff |-> b,
          result |-> [kind |-> "ok", status |-> resp.status, body |-> resp.body]]
    ELSE [ret |-> FALSE, sleep |-> b, backoff |-> b * backoffFactor,
          result |-> NoResult]

HttpIter(b, resp) ==
    IF resp.err
    THEN \* resp is nil: resp.StatusCode dereferences it (line 378)
         [ret |-> TRUE, sleep |-> 0, backoff |-> b,
          result |-> [kind |-> "panic", status |-> 0, body |-> NoBody]]
    ELSE IF resp.status # StatusOK /\ resp.status # rateLimitHttpCode
    THEN [ret |-> TRUE, sleep |-> 0, backoff |-> b,
          result |-> [kind |-> "error", status |-> resp.status, body |-> resp.body]]
    ELSE IF b > maxBackoffMS \/ resp.status # rateLimitHttpCode
    THEN [ret |-> TRUE, sleep |-> 0, backoff |-> b,
          result |-> [kind |-> "ok", status |-> resp.status, body |-> resp.body]]
    ELSE [ret |-> FALSE, sleep |-> b, backoff |-> b * backoffFactor,
          result |-> NoResult]

\* the whole call against a server that answers with the responses of
\* script, in order; the result is "none" if the script ends first
RECURSIVE HttpLoop(_, _)
HttpLoop(b, script) ==
    IF script = <<>> THEN NoResult
    ELSE LET it == HttpIter(b, Head(script))
         IN  IF it.ret THEN it.result ELSE HttpLoop(it.backoff, Tail(script))

makeRetryableHttpCall(script) == HttpLoop(initialBackoffMS, script)

\* conductRequestRaw / conductRequest: hand the call's body and error on
conductRequest(script) == makeRetryableHttpCall(script)

\* the course of the same call: the sleeps taken, the backoff left and the
\* response the call returned on
RECURSIVE HttpTrace(_, _, _)
HttpTrace(b, script, sl) ==
    LET it == HttpIter(b, Head(script))
    IN  IF it.ret
        THEN [backoff |-> it.backoff, sleeps |-> sl, last |-> Head(script)]
        ELSE IF Len(script) = 1
        THEN [backoff |-> it.backoff, sleeps |-> Append(sl, it.sleep), last |-> Head(script)]
        ELSE HttpTrace(it.backoff, Tail(script), Append(sl, it.sleep))

\* a call of makeRetryableHttpCall that ran to its return
CallMade(script) ==
    LET t == HttpTrace(initialBackoffMS, script, <<>>) IN
    /\ hpc' = "returned"
    /\ backoffMs' = t.backoff
    /\ sleeps' = t.sleeps
    /\ nreq' = Len(t.sleeps) + 1
    /\ hresult' = conductRequest(script)
    /\ lastResp' = t.last

\* no call made yet
CallReset ==
    /\ hpc' = "idle" /\ backoffMs' = initialBackoffMS /\ sleeps' = <<>>
    /\ nreq' = 0 /\ hresult' = NoResult /\ lastResp' = NetErr

\* k rate-limit responses in a row
RECURSIVE Throttled(_)
Throttled(k) == IF k = 0 THEN <<>> ELSE <<Resp(rateLimitHttpCode, ErrorBody)>> \o Throttled(k - 1)

\* the servers the scheduler is run against: any final response, reached
\* directly, after one rate-limit response, or after six of them
Scripts(bodies) ==
    { Throttled(k) \o <<r>> :
        k \in {0, 1, 6},
        r \in {NetErr} \cup { Resp(s, b) : s \in {StatusOK, StatusPartialContent}, b \in bodies }
                       \cup { Resp(s, ErrorBody) : s \in {500, rateLimitHttpCode} } }

\* ------------------------------------------------------------------ Init
InitialWatermarks == {0}
NoMessage == <<0, 0>>
NoFile == <<>>
EmptyResponse == [NextLink |-> "", Value |-> 0]
NoParams == [gt |-> 0, le |-> 0, skiptoken |-> ""]
NoCycle == [wm |-> 0, sf |-> 0, now |-> 0, outcome |-> "none"]

InitHttpIdle ==
    /\ hpc = "idle" /\ backoffMs = initialBackoffMS /\ sleeps = <<>>
    /\ nreq = 0 /\ hresult = NoResult /\ lastResp = NetErr

InitRest ==
    /\ pc = "idle" /\ clock = 0 /\ now = 0 /\ cycle = 0
    /\ LastPollTimestamp \in InitialWatermarks
    /\ stateFile = LastPollTimestamp
    /\ eventCount = 0 /\ done = FALSE
    /\ AccessToken = "" /\ count = 0 /\ response = EmptyResponse
    /\ tmpNextLink = "" /\ params = NoParams /\ toPush = 0 /\ pages = <<>>
    /\ requests = 0
    /\ chnMessages = <<>> /\ closed = FALSE /\ cpc = "recv"
    /\ message = NoMessage /\ file = <<>> /\ WriteCount = 0
    /\ prevFile = NoFile /\ received = <<>>
    /\ handed = {} /\ dispatch = "none"
    /\ outcome = "none" /\ cycleStart = NoCycle /\ prevCycle = NoCycle
    /\ lastCall = "none"

Init == InitRest /\ InitHttpIdle

\* ------------------------------------------------------------- scheduler
Range(s) == { s[i] : i \in 1..Len(s) }

\* the first n records GetAlerts pushes in cycle c
RecordsOf(c, n) == { <<c, k>> : k \in 1..n }

\* `continue` after an error: the cycle is over, the state is left alone
FailCycleAdvancing ==
    /\ pc' = "idle"
    /\ outcome' = "failed"
    /\ LastPollTimestamp' = FormatRFC3339(now)
    /\ stateFile' = FormatRFC3339(now)

FailCycle ==
    /\ pc' = "idle"
    /\ outcome' = "failed"
    /\ UNCHANGED <<LastPollTimestamp, stateFile>>

\* a panic in the scheduler goroutine ends the process
Crash ==
    /\ pc' = "crashed"
    /\ outcome' = "crashed"
    /\ UNCHANGED <<LastPollTimestamp, stateFile>>

\* pollEvery: the timer case of the select, and getEvents up to time.Now()
Tick ==
    /\ pc = "idle"
    /\ cycle < MaxCycles
    /\ \E d \in Intervals :
         /\ clock' = clock + d
         /\ now' = clock + d
    /\ cycle' = cycle + 1
    /\ pc' = "login"
    /\ outcome' = "running"
    /\ prevCycle' = [cycleStart EXCEPT !.outcome = outcome]
    /\ cycleStart' = [wm |-> LastPollTimestamp, sf |-> stateFile,
                      now |-> clock', outcome |-> "running"]
    /\ eventCount' = 0 /\ count' = 0 /\ response' = EmptyResponse
    /\ tmpNextLink' = "" /\ params' = NoParams /\ toPush' = 0
    /\ pages' = <<>> /\ requests' = 0 /\ AccessToken' = ""
    /\ received' = <<>> /\ handed' = {} /\ dispatch' = "none"
    /\ lastCall' = "none"
    /\ CallReset
    /\ UNCHANGED <<LastPollTimestamp, stateFile, done, chnMessages, closed,
                   cpc, message, file, WriteCount, prevFile>>

\* pollEvery: the done case of the select
CloseOnSignal ==
    /\ done
    /\ ~closed
    /\ closed' = TRUE
    /\ received' = <<>>
    /\ UNCHANGED <<schedVars, getVars, chnMessages, cpc, message, file,
                   WriteCount, prevFile, outVars, obsVars, httpVars>>

Close ==
    /\ pc = "idle"
    /\ done
    /\ closed' = TRUE
    /\ pc' = "closed"
    \* from here on, received is what the consumer receives after the close
    /\ received' = <<>>
    /\ UNCHANGED <<clock, now, cycle, LastPollTimestamp, stateFile, eventCount,
                   done, getVars, chnMessages, cpc, message, file, WriteCount,
                   prevFile, outVars, obsVars, httpVars>>

\* setupCloseHandler: the signal goroutine offers a value on done
Signal ==
    /\ ~done
    /\ pc \notin {"closed", "crashed"}
    /\ cpc # "exited"
    /\ done' = TRUE
    /\ UNCHANGED <<pc, clock, now, cycle, LastPollTimestamp, stateFile,
                   eventCount, getVars, consVars, outVars, obsVars, httpVars>>

LoginBodies == {TokenBody, ErrorBody, GarbageBody}

\* how the server ended the call: with a response, or with a transport error
CallKind(script) == IF script[Len(script)].err THEN "neterr" ELSE "response"

\* getEvents -> NewClient -> login
Login ==
    /\ pc = "login"
    /\ \E script \in Scripts(LoginBodies) :
         LET r == conductRequest(script) IN
         /\ r.kind # "none"
         /\ lastCall' = CallKind(script)
         /\ CallMade(script)
         /\ IF r.kind = "panic"
            THEN Crash /\ UNCHANGED AccessToken
            ELSE IF r.kind = "error" \/ ~r.body.json
            THEN FailCycle /\ UNCHANGED AccessToken
            ELSE /\ AccessToken' = r.body.access_token
                 /\ pc' = "get"
                 /\ UNCHANGED <<LastPollTimestamp, stateFile, outcome>>
    /\ UNCHANGED <<clock, now, cycle, eventCount, done, count, response,
                   tmpNextLink, params, toPush, pages, requests, consVars,
                   outVars, cycleStart, prevCycle>>

\* json.Unmarshal(body, &response): a field the body lacks keeps the value
\* the struct already holds
Unmarshal(resp, body) ==
    [NextLink |-> IF body.nextLink = Absent THEN resp.NextLink ELSE body.nextLink,
     Value |-> body.value]

\* nextLinkParams.Get("$skiptoken")
SkipToken(link) == IF link = "L1" THEN "s1" ELSE IF link = "L2" THEN "s2" ELSE ""

Page(r) == [status |-> r.status, value |-> r.body.value, nextLink |-> r.body.nextLink]

\* GetAlerts returns (n, nil), getEvents hands it on, pollEvery tests
\* eventCount > 0
ReturnToDrain(n) ==
    /\ eventCount' = n
    /\ pc' = "drain"
    /\ UNCHANGED <<LastPollTimestamp, stateFile, outcome>>

Return(n) ==
    /\ eventCount' = n
    /\ pc' = IF n > 0 THEN "drain" ELSE "advance"
    /\ UNCHANGED <<LastPollTimestamp, stateFile, outcome>>

\* `return 0, nil` of the empty-page branch
EmptyPageReturnCount == Return(count)

EmptyPageContinue ==
    /\ pc' = "getn"
    /\ UNCHANGED <<eventCount, LastPollTimestamp, stateFile, outcome>>

EmptyPageReturn == Return(0)

\* what one GET of GetAlerts does with the call's result r, the struct the
\* body is unmarshalled into being resp
HandlePage(r, resp) ==
    IF r.kind = "panic"
    THEN Crash /\ UNCHANGED <<eventCount, response, count, toPush, pages>>
    ELSE IF r.kind = "error" \/ ~r.body.json
    THEN FailCycle /\ UNCHANGED <<eventCount, response, count, toPush, pages>>
    ELSE /\ response' = Unmarshal(resp, r.body)
         /\ pages' = Append(pages, Page(r))
         /\ IF r.body.value = 0
            THEN EmptyPageReturn /\ UNCHANGED <<count, toPush>>
            ELSE /\ count' = count + r.body.value
                 /\ toPush' = r.body.value
                 /\ pc' = "push"
                 /\ UNCHANGED <<eventCount, LastPollTimestamp, stateFile, outcome>>

\* GetAlerts, lines 151-200: the filter and the first request
GetFirst(bodies) ==
    /\ pc = "get"
    /\ params' = [gt |-> FormatUTC(ParseRFC3339(LastPollTimestamp)),
                  le |-> FormatUTC(ParseRFC3339(FormatRFC3339(now))),
                  skiptoken |-> ""]
    /\ requests' = 1
    /\ \E script \in Scripts(bodies) :
         LET r == conductRequest(script) IN
         /\ r.kind # "none"
         /\ lastCall' = CallKind(script)
         /\ CallMade(script)
         /\ HandlePage(r, EmptyResponse)
    /\ UNCHANGED <<clock, now, cycle, done, AccessToken, tmpNextLink, consVars,
                   outVars, cycleStart, prevCycle>>

\* the loop test `response.NextLink != ""` and the break on a repeated link
LoopEndsAlways == TRUE

LoopEndsNoBreak == response.NextLink = ""

LoopEnds ==
    \/ tmpNextLink # "" /\ tmpNextLink = response.NextLink
    \/ response.NextLink = ""

\* the next record of data
NextRecordBackwards == <<cycle, (count - response.Value) + toPush>>

NextRecord == <<cycle, (count - response.Value) + (response.Value - toPush + 1)>>

\* a send on the buffered channel goes through when the buffer has room
\* and blocks otherwise
SendReadyUnbuffered == TRUE

SendReady == Len(chnMessages) < maxMessages

\* GetAlerts, lines 209-211 and 266-268: one send on resultsChannel
Push ==
    /\ pc = "push"
    /\ toPush > 0
    /\ SendReady
    /\ chnMessages' = Append(chnMessages, NextRecord)
    /\ toPush' = toPush - 1
    /\ IF toPush' > 0
       THEN UNCHANGED <<pc, eventCount, LastPollTimestamp, stateFile, outcome>>
       ELSE IF LoopEnds
            THEN Return(count)
            ELSE /\ pc' = "getn"
                 /\ UNCHANGED <<eventCount, LastPollTimestamp, stateFile, outcome>>
    /\ UNCHANGED <<clock, now, cycle, done, AccessToken, count, response,
                   tmpNextLink, params, pages, requests, closed, cpc, message,
                   file, WriteCount, prevFile, received, outVars, cycleStart,
                   prevCycle, lastCall, httpVars>>

\* params.Set("$skiptoken", skipToken): the other parameters stay as set
\* before the first request
NextParamsRefiltered(p, link) ==
    [p EXCEPT !.skiptoken = SkipToken(link), !.gt = p.le]

NextParams(p, link) == [p EXCEPT !.skiptoken = SkipToken(link)]

\* GetAlerts, lines 218-257: the request for the next page
GetNext(bodies, maxPages) ==
    /\ pc = "getn"
    /\ requests < maxPages
    /\ tmpNextLink' = response.NextLink
    /\ params' = NextParams(params, response.NextLink)
    /\ requests' = requests + 1
    /\ \E script \in Scripts(bodies) :
         LET r == conductRequest(script) IN
         /\ r.kind # "none"
         /\ lastCall' = CallKind(script)
         /\ CallMade(script)
         /\ HandlePage(r, response)
    /\ UNCHANGED <<clock, now, cycle, done, AccessToken, consVars, outVars,
                   cycleStart, prevCycle>>

\* pollEvery, lines 116-118: the wait loop is left
DrainDoneNoCount == Len(chnMessages) = 0

DrainDone == ~(Len(chnMessages) > 0 \/ WriteCount # eventCount)

Drain ==
    /\ pc = "drain"
    /\ DrainDone
    /\ pc' = "rotate"
    /\ UNCHANGED <<clock, now, cycle, LastPollTimestamp, stateFile, eventCount,
                   done, getVars, consVars, outVars, obsVars, httpVars>>

\* TmpWriter.Rotate: the artifact becomes the previous file, a fresh one is
\* opened and the write counter starts again
TmpRotate ==
    /\ prevFile' = file
    /\ file' = <<>>
    /\ WriteCount' = 0

\* pollEvery, lines 121-127
Rotate ==
    /\ pc = "rotate"
    /\ \E ok \in BOOLEAN :
         IF ok
         THEN /\ TmpRotate
              /\ pc' = "output"
              /\ UNCHANGED <<LastPollTimestamp, stateFile, outcome>>
         ELSE /\ FailCycle
              /\ UNCHANGED <<file, prevFile, WriteCount>>
    /\ UNCHANGED <<clock, now, cycle, eventCount, done, getVars, chnMessages,
                   closed, cpc, message, received, outVars, cycleStart,
                   prevCycle, lastCall, httpVars>>

\* pollEvery, lines 130-153: stat, the size test, WriteToOutputs, delete
Output ==
    /\ pc = "output"
    /\ \E statOk \in BOOLEAN, writeOk \in BOOLEAN :
         IF ~statOk
         THEN FailCycle /\ UNCHANGED <<prevFile, handed, dispatch>>
         ELSE IF Len(prevFile) = 0
         THEN FailCycle /\ prevFile' = NoFile /\ UNCHANGED <<handed, dispatch>>
         ELSE /\ handed' = handed \cup Range(prevFile)
              /\ dispatch' = IF writeOk THEN "ok" ELSE "failed"
              /\ prevFile' = NoFile
              /\ pc' = "advance"
              /\ UNCHANGED <<LastPollTimestamp, stateFile, outcome>>
    /\ UNCHANGED <<clock, now, cycle, eventCount, done, getVars, chnMessages,
                   closed, cpc, message, file, WriteCount, received, cycleStart,
                   prevCycle, lastCall, httpVars>>

\* pollEvery, lines 156-160: the state update and state.Save
AdvanceOneSecondEarly ==
    /\ pc = "advance"
    /\ LastPollTimestamp' = FormatRFC3339(now) - 1
    /\ stateFile' = LastPollTimestamp'
    /\ pc' = "idle"
    /\ outcome' = "ok"
    /\ UNCHANGED <<clock, now, cycle, eventCount, done, getVars, consVars,
                   outVars, cycleStart, prevCycle, lastCall, httpVars>>

Advance ==
    /\ pc = "advance"
    /\ LastPollTimestamp' = FormatRFC3339(now)
    /\ stateFile' = LastPollTimestamp'
    /\ pc' = "idle"
    /\ outcome' = "ok"
    /\ UNCHANGED <<clock, now, cycle, eventCount, done, getVars, consVars,
                   outVars, cycleStart, prevCycle, lastCall, httpVars>>

\* -------------------------------------------------------------- consumer
\* main, line 64: a message is received
Receive ==
    /\ cpc = "recv"
    /\ pc # "crashed"
    /\ Len(chnMessages) > 0
    /\ message' = Head(chnMessages)
    /\ chnMessages' = Tail(chnMessages)
    /\ received' = Append(received, Head(chnMessages))
    /\ cpc' = "handle"
    /\ UNCHANGED <<schedVars, getVars, closed, file, WriteCount, prevFile,
                   outVars, obsVars, httpVars>>

\* handleMessage -> TmpWriter.WriteString
Write ==
    /\ cpc = "handle"
    /\ pc # "crashed"
    /\ file' = Append(file, message)
    /\ WriteCount' = WriteCount + 1
    /\ cpc' = "recv"
    /\ UNCHANGED <<schedVars, getVars, chnMessages, closed, message, prevFile,
                   received, outVars, obsVars, httpVars>>

\* main, lines 65-69: the channel is closed and empty
ConsumerExitAtClose ==
    /\ cpc = "recv"
    /\ pc # "crashed"
    /\ closed
    /\ cpc' = "exited"
    /\ UNCHANGED <<schedVars, getVars, chnMessages, closed, message, file,
                   WriteCount, prevFile, received, outVars, obsVars, httpVars>>

ConsumerExit ==
    /\ cpc = "recv"
    /\ pc # "crashed"
    /\ closed
    /\ Len(chnMessages) = 0
    /\ cpc' = "exited"
    /\ UNCHANGED <<schedVars, getVars, chnMessages, closed, message, file,
                   WriteCount, prevFile, received, outVars, obsVars, httpVars>>

Next ==
    \/ Tick
    \/ Close
    \/ Signal
    \/ Login
    \/ GetFirst(SchedBodies)
    \/ Push
    \/ GetNext(SchedBodies, MaxPages)
    \/ Drain
    \/ Rotate
    \/ Output
    \/ Advance
    \/ Receive
    \/ Write
    \/ ConsumerExit

Spec == Init /\ [][Next]_vars

\* the two goroutines: each keeps running while it has a step to take (the
\* Go scheduler starves neither); the signal is the environment's and is
\* under no obligation
SchedulerNext ==
    \/ Tick
    \/ Close
    \/ Login
    \/ GetFirst(SchedBodies)
    \/ Push
    \/ GetNext(SchedBodies, MaxPages)
    \/ Drain
    \/ Rotate
    \/ Output
    \/ Advance

ConsumerNext ==
    \/ Receive
    \/ Write
    \/ ConsumerExit

FairSpec == Spec /\ WF_vars(SchedulerNext) /\ WF_vars(ConsumerNext)

\* ------------------------------------------------------ GetAlerts, alone
\* one call of GetAlerts in the first cycle, after a login that succeeded,
\* with the consumer running
InitFetch ==
    /\ pc = "get" /\ cycle = 1 /\ clock \in Intervals /\ now = clock
    /\ LastPollTimestamp = 0 /\ stateFile = 0
    /\ eventCount = 0 /\ done = FALSE
    /\ AccessToken = "tok" /\ count = 0 /\ response = EmptyResponse
    /\ tmpNextLink = "" /\ params = NoParams /\ toPush = 0 /\ pages = <<>>
    /\ requests = 0
    /\ chnMessages = <<>> /\ closed = FALSE /\ cpc = "recv"
    /\ message = NoMessage /\ file = <<>> /\ WriteCount = 0
    /\ prevFile = NoFile /\ received = <<>>
    /\ handed = {} /\ dispatch = "none"
    /\ outcome = "running"
    /\ cycleStart = [wm |-> 0, sf |-> 0, now |-> clock, outcome |-> "running"]
    /\ prevCycle = NoCycle
    /\ lastCall = "response"
    /\ hpc = "returned" /\ backoffMs = initialBackoffMS /\ sleeps = <<>>
    /\ nreq = 1 /\ lastResp = Resp(StatusOK, TokenBody)
    /\ hresult = [kind |-> "ok", status |-> StatusOK, body |-> TokenBody]

NextFetch ==
    \/ GetFirst(AlertBodies)
    \/ Push
    \/ GetNext(AlertBodies, MaxFetchPages)
    \/ Receive
    \/ Write

SpecFetch == InitFetch /\ [][NextFetch]_vars

\* the same with both goroutines kept running
FetcherNext ==
    \/ GetFirst(AlertBodies)
    \/ Push
    \/ GetNext(AlertBodies, MaxFetchPages)

FairSpecFetch == SpecFetch /\ WF_vars(FetcherNext) /\ WF_vars(ConsumerNext)

\* ------------------------------------------ makeRetryableHttpCall, alone
HttpBodies == {ErrorBody, GarbageBody, TokenBody}
Responses == {NetErr} \cup { Resp(s, b) : s \in Statuses, b \in HttpBodies }

InitHttp ==
    /\ InitRest
    /\ LastPollTimestamp = 0
    /\ hpc = "call" /\ backoffMs = initialBackoffMS /\ sleeps = <<>>
    /\ nreq = 0 /\ hresult = NoResult /\ lastResp = NetErr

\* one pass of the loop of makeRetryableHttpCall against any response
HttpStep ==
    /\ hpc = "call"
    /\ \E resp \in Responses :
         LET it == HttpIter(backoffMs, resp) IN
         /\ nreq' = nreq + 1
         /\ lastResp' = resp
         /\ backoffMs' = it.backoff
         /\ IF it.ret
            THEN hpc' = "returned" /\ hresult' = it.result /\ UNCHANGED sleeps
            ELSE hpc' = "call" /\ sleeps' = Append(sleeps, it.sleep) /\ UNCHANGED hresult
    /\ UNCHANGED <<schedVars, getVars, consVars, outVars, obsVars>>

NextHttp == HttpStep

SpecHttp == InitHttp /\ [][NextHttp]_vars

\* ================================================================ claims
\* the lower bound a cycle that started with watermark wm puts in its filter
LowerBound(wm) == FormatUTC(ParseRFC3339(wm))

\* C1 (as stated): after every successful cycle the persisted watermark is
\* the instant `now` that getEvents captured at the start of that cycle,
\* neither earlier nor later.
C1_WatermarkIsNow ==
    outcome = "ok" => ParseRFC3339(stateFile) = cycleStart.now

\* C1 (amended): after every successful cycle the persisted watermark is
\* `now` in RFC 3339 form, that is `now` cut down to whole seconds: it is
\* never later than `now` and less than one second earlier, and the value
\* in memory is the same.
C1_WatermarkIsNowInSeconds ==
    outcome = "ok" =>
        /\ stateFile * TicksPerSecond <= cycleStart.now
        /\ cycleStart.now < (stateFile + 1) * TicksPerSecond
        /\ LastPollTimestamp = stateFile

C1_Witness ==
    /\ outcome = "ok"
    /\ eventCount > 0
    /\ cycleStart.now % TicksPerSecond # 0
    /\ stateFile # cycleStart.sf

\* C2: a failed cycle (login error, GetAlerts error, rotation failure, stat
\* failure, zero-byte artifact) leaves the watermark in memory and on disk
\* as it was before the cycle, and the cycle after a failed one filters
\* with the same lower bound.
C2_FailedCycleKeepsWatermark ==
    /\ outcome \in {"failed", "crashed"} =>
          /\ LastPollTimestamp = cycleStart.wm
          /\ stateFile = cycleStart.sf
    /\ (prevCycle.outcome = "failed" /\ requests >= 1) =>
          params.gt = LowerBound(prevCycle.wm)

C2_Witness ==
    /\ prevCycle.outcome = "failed"
    /\ outcome = "failed"
    /\ requests >= 1
    /\ count > 0
    /\ cycleStart.now > prevCycle.now

\* every response the cycle parsed as a page of alerts was one: a success
\* response, not the rate-limit response left when the backoff ran out
WindowFetched ==
    /\ pages # <<>>
    /\ \A i \in 1..Len(pages) : pages[i].status = StatusOK

\* C3: whenever the watermark is advanced to a cycle's upper bound, the
\* window's records have been fetched and every record the cycle fetched
\* has been written to the artifact and handed to output dispatch.
C3_NoSkippedWindow ==
    (outcome = "ok" /\ stateFile # cycleStart.sf) =>
        /\ WindowFetched
        /\ RecordsOf(cycle, count) \subseteq handed

\* C4: when the wait loop of a cycle with count n > 0 is left and Rotate is
\* about to be called, the n records the cycle pushed are in the artifact.
C4_DrainBeforeRotate ==
    pc = "rotate" => RecordsOf(cycle, eventCount) \subseteq Range(file)

\* the pages of a call are non-empty successful responses whose next links
\* differ from one another, the last one carrying none
RECURSIVE SumValues(_)
SumValues(ps) == IF ps = <<>> THEN 0 ELSE Head(ps).value + SumValues(Tail(ps))

DistinctPages(ps) ==
    /\ ps # <<>>
    /\ \A i \in 1..Len(ps) : ps[i].status = StatusOK /\ ps[i].value > 0
    /\ \A i \in 1..(Len(ps) - 1) : ps[i].nextLink \in Links
    /\ \A i, j \in 1..(Len(ps) - 1) : i # j => ps[i].nextLink # ps[j].nextLink
    /\ ps[Len(ps)].nextLink \in {"", Absent}

\* C5: for pages P1..Pn, each non-empty, with distinct continuation tokens
\* and no next link on the last, GetAlerts returns the sum of the pages'
\* records, and the consumer gets them in page order, in-page order.
C5_CountAndOrder ==
    (pc \in {"drain", "advance"} /\ DistinctPages(pages)) =>
        /\ eventCount = SumValues(pages)
        /\ received \o chnMessages = [k \in 1..SumValues(pages) |-> <<cycle, k>>]

C5_Witness ==
    /\ pc = "drain"
    /\ DistinctPages(pages)
    /\ Len(pages) = 3
    /\ pages[1].value = 2
    /\ Len(received) = eventCount

\* C6: against rate-limit responses makeRetryableHttpCall sleeps 1000,
\* 2000, 4000, 8000, 16000, 32000 ms in that order and returns the seventh
\* response as it is; it never sleeps longer, never sends an eighth
\* request, and returns any other response at once.
ExpectedWaits == <<1000, 2000, 4000, 8000, 16000, 32000>>

C6_BackoffSchedule ==
    /\ Len(sleeps) <= Len(ExpectedWaits)
    /\ \A i \in 1..Len(sleeps) : sleeps[i] = ExpectedWaits[i]
    /\ nreq <= Len(ExpectedWaits) + 1
    /\ hpc = "call" => Len(sleeps) = nreq
    /\ (hpc = "returned" /\ ~lastResp.err /\ lastResp.status = rateLimitHttpCode) =>
          /\ sleeps = ExpectedWaits
          /\ nreq = Len(ExpectedWaits) + 1
          /\ hresult = [kind |-> "ok", status |-> lastResp.status, body |-> lastResp.body]
    /\ (nreq > 0 /\ ~lastResp.err /\ lastResp.status # rateLimitHttpCode) =>
          /\ hpc = "returned"
          /\ Len(sleeps) = nreq - 1
          /\ hresult.status = lastResp.status
          /\ hresult.body = lastResp.body

C6_Witness ==
    /\ hpc = "returned"
    /\ nreq = 7
    /\ sleeps = ExpectedWaits
    /\ hresult.status = rateLimitHttpCode
    /\ hresult.body = TokenBody

\* C7: when the response to the request made with continuation link L
\* reports next link L again, GetAlerts sends no further request and
\* returns the count accumulated so far, that response's records included.
RepeatedLink ==
    /\ Len(pages) >= 2
    /\ pages[Len(pages) - 1].nextLink \in Links
    /\ pages[Len(pages)].status = StatusOK
    /\ pages[Len(pages)].nextLink = pages[Len(pages) - 1].nextLink

C7_RepeatedLinkStops ==
    RepeatedLink =>
        /\ pc \in {"push", "drain", "advance"}
        /\ requests = Len(pages)
        /\ pc # "push" => eventCount = count

\* C8: an empty first page makes GetAlerts return 0 without error, with
\* nothing pushed and no second request, whatever its next link.
C8_EmptyFirstPage ==
    (pages # <<>> /\ pages[1].value = 0) =>
        /\ pc = "advance"
        /\ outcome = "running"
        /\ eventCount = 0
        /\ requests = 1
        /\ Len(pages) = 1
        /\ chnMessages = <<>>
        /\ received = <<>>

C8_Witness ==
    /\ pages # <<>>
    /\ pages[1].status = StatusOK
    /\ pages[1].value = 0
    /\ pages[1].nextLink \in Links
    /\ pc = "advance"

\* C9: when WriteToOutputs fails for the cycle's artifact the watermark
\* keeps the value it had before the cycle, in memory and on disk.
C9_DispatchFailureKeepsWatermark ==
    dispatch = "failed" =>
        /\ LastPollTimestamp = cycleStart.wm
        /\ stateFile = cycleStart.sf

\* C10: a transport error on the login POST or an alerts GET comes back to
\* the scheduler as an error: the process keeps running, the cycle is over
\* without the watermark advanced, and the scheduler waits for the next
\* interval.
C10_TransportErrorFailsCycle ==
    lastCall = "neterr" =>
        /\ pc \in {"idle", "closed"}
        /\ outcome = "failed"
        /\ LastPollTimestamp = cycleStart.wm
        /\ stateFile = cycleStart.sf

\* C11: once a termination signal has been delivered, the scheduler, in
\* whatever state it is, eventually closes the channel and returns (the runs
\* in which a panic has ended the process are left aside), and once closed
\* it stays closed and starts no further cycle.
C11_SignalLeadsToClosed ==
    /\ done ~> (pc = "closed" \/ pc = "crashed")
    /\ [][pc = "closed" => (pc' = "closed" /\ cycle' = cycle)]_vars

\* the records GetAlerts has sent so far in this call, in order
Sent == [k \in 1..(count - toPush) |-> <<cycle, k>>]

\* C12: the channel never holds more records than its capacity; a fetcher
\* blocked in its send on a full channel is always unblocked again by the
\* consumer; and a call that fetches more records than the capacity holds
\* returns with every record sent delivered to the consumer in order, none
\* dropped, and all of them end up written.
C12_BackpressureNoDeadlock ==
    /\ [](Len(chnMessages) <= maxMessages)
    /\ [](received \o chnMessages = Sent)
    /\ (pc = "push" /\ ~SendReady) ~> (pc = "push" /\ SendReady)
    /\ (pc = "push") ~> (pc # "push")
    /\ (pc = "drain") ~> (pc = "drain" /\ Len(received) = eventCount
                            /\ file = received /\ WriteCount = eventCount)

C12_Witness ==
    /\ pc = "drain"
    /\ eventCount > 2 * maxMessages
    /\ Len(pages) > 1
    /\ file = Sent

\* the response GetAlerts parsed last
LastPage == pages[Len(pages)]

\* C13: when a page after the first has an empty value list, pagination
\* ends and GetAlerts returns the count accumulated over the earlier pages,
\* the number of records it has pushed, not zero.
C13_EmptyLaterPageReturnsCount ==
    (Len(pages) >= 2 /\ LastPage.status = StatusOK /\ LastPage.value = 0) =>
        /\ pc = "drain"
        /\ requests = Len(pages)
        /\ eventCount = count
        /\ eventCount = Len(received \o chnMessages)

\* the call that returned last got, as its final response, one with status s
ReturnedOn(s) == hpc = "returned" /\ ~lastResp.err /\ lastResp.status = s

\* C14: a call still answered with the rate-limit status after the last
\* backoff wait fails its cycle: the response is not parsed as a page or a
\* token, the cycle ends as failed and the watermark stays where it was.
C14_RateLimitSurfaced ==
    ReturnedOn(rateLimitHttpCode) =>
        /\ hresult.kind = "error"
        /\ outcome = "failed"
        /\ \A i \in 1..Len(pages) : pages[i].status # rateLimitHttpCode
        /\ LastPollTimestamp = cycleStart.wm
        /\ stateFile = cycleStart.sf

\* C15: a response with status 206 is returned to the caller without error
\* and parsed as a page like any other: its records are counted and pushed
\* and pagination goes on from its next link.
C15_PartialContentParsed ==
    (ReturnedOn(StatusPartialContent) /\ requests >= 1 /\ lastResp.body.json) =>
        /\ hresult.kind = "ok"
        /\ hresult.body = lastResp.body
        /\ Len(pages) = requests
        /\ LastPage = Page(lastResp)
        /\ outcome = "running"

\* C16: a response whose status is neither 200 nor 429, the first of its
\* call or one that follows rate-limit retries, is returned at once as an
\* error carrying the status: no sleep follows it, it is not parsed,
\* GetAlerts returns an error, and the records of the earlier pages stay
\* sent.
C16_ErrorStatusSurfaced ==
    (hpc = "returned" /\ requests >= 1 /\ ~lastResp.err
        /\ lastResp.status \notin {StatusOK, rateLimitHttpCode}) =>
        /\ hresult = [kind |-> "error", status |-> lastResp.status, body |-> lastResp.body]
        /\ nreq = Len(sleeps) + 1
        /\ Len(pages) = requests - 1
        /\ outcome = "failed"
        /\ pc = "idle"
        /\ toPush = 0
        /\ received \o chnMessages = Sent

C16_Witness ==
    /\ ReturnedOn(500)
    /\ nreq = 7
    /\ requests = 2
    /\ count = 2
    /\ outcome = "failed"
    /\ Len(received) = 2

\* C17: the wait loop of a cycle that fetched n > 0 records never blocks
\* for ever, also when an earlier cycle failed after records were pushed or
\* written: as long as the scheduler waits, either the condition of the
\* loop lets it go or the consumer still has a record to receive or write.
C17_DrainNeverStuck ==
    pc = "drain" => (DrainDone \/ Len(chnMessages) > 0 \/ cpc = "handle")

\* C18: a cycle whose fetch returns zero records goes straight to the
\* state update: it never waits, rotates or dispatches, and it ends with
\* the watermark, in memory and on disk, at the cycle's upper bound.
C18_ZeroRecordsAdvance ==
    /\ pc \in {"drain", "rotate", "output"} => eventCount > 0
    /\ (pc = "advance" /\ eventCount = 0) => (handed = {} /\ dispatch = "none")
    /\ (outcome = "ok" /\ eventCount = 0) =>
          /\ handed = {} /\ dispatch = "none"
          /\ LastPollTimestamp = FormatRFC3339(cycleStart.now)
          /\ stateFile = FormatRFC3339(cycleStart.now)

C18_Witness ==
    /\ outcome = "ok"
    /\ eventCount = 0
    /\ count = 0
    /\ pages # <<>>
    /\ pages[1].status = StatusOK
    /\ stateFile # cycleStart.sf

\* C19: after the scheduler has closed the channel, the records still
\* buffered leave it only by being received by the consumer, in order; the
\* consumer exits only when the channel is empty and what it received has
\* been written; until it has exited it always has a step to take (receive,
\* write or exit), and it exits once.
C19_ConsumerDrainsBeforeExit ==
    /\ [](cpc = "exited" =>
            /\ closed
            /\ chnMessages = <<>>
            /\ Range(received) \subseteq Range(file))
    /\ [][closed =>
            \/ chnMessages' = chnMessages
            \/ /\ cpc = "recv" /\ cpc' = "handle"
               /\ chnMessages' = Tail(chnMessages)
               /\ received' = Append(received, Head(chnMessages))]_vars
    /\ [][cpc = "exited" => cpc' = "exited"]_vars
    /\ []((closed /\ cpc # "exited") => ENABLED ConsumerNext)

C19_Witness ==
    /\ cpc = "exited"
    /\ Len(received) > 0
    /\ Range(received) \subseteq Range(file)

\* the only call of the cycle so far is the login
LoginCall == requests = 0 /\ hpc = "returned"

\* the login exchange failed: no response, an error status, or a body that
\* does not parse
LoginFailed ==
    LoginCall /\ (hresult.kind \in {"panic", "error"} \/ ~hresult.body.json)

\* a record of cycle c is in the channel or with the consumer
PushedIn(c) ==
    \/ \E i \in 1..Len(chnMessages) : chnMessages[i][1] = c
    \/ \E i \in 1..Len(received) : received[i][1] = c

\* C20: in every cycle the upper bound is captured before Login runs, an
\* alerts GET is only issued after a login that succeeded, and when the
\* login fails no GET is issued, no record is pushed and the cycle is
\* reported as failed.
C20_LoginBeforeFetch ==
    /\ pc = "login" => (now = cycleStart.now /\ hpc = "idle" /\ requests = 0)
    /\ pc = "get" =>
          /\ LoginCall /\ ~LoginFailed
          /\ now = cycleStart.now
    /\ LoginFailed =>
          /\ outcome = "failed"
          /\ pc \in {"idle", "closed"}
          /\ pages = <<>> /\ count = 0
          /\ ~PushedIn(cycle)

\* the upper bound a cycle that captured `now` = t puts in its filter
UpperBound(t) == FormatUTC(ParseRFC3339(FormatRFC3339(t)))

\* C21: every page request of a cycle carries the same filter bounds, the
\* watermark the cycle started with and the upper bound captured at its
\* start; from one request to the next only the continuation token changes,
\* and it is the token of the link the previous page reported.
C21_FixedWindow ==
    /\ [](requests >= 1 =>
            /\ params.gt = LowerBound(cycleStart.wm)
            /\ params.le = UpperBound(cycleStart.now))
    /\ [](requests = 1 => params.skiptoken = "")
    /\ [](requests >= 2 => params.skiptoken = SkipToken(tmpNextLink))
    /\ [][(requests' > requests /\ requests >= 1) =>
            /\ params'.gt = params.gt
            /\ params'.le = params.le
            /\ params'.skiptoken = SkipToken(response.NextLink)]_vars

C21_Witness ==
    /\ requests = 2
    /\ Len(pages) = 2
    /\ params.skiptoken = "s1"
    /\ params.gt > 0
    /\ params.le > params.gt

\* C22: with a clock that does not go back and a startup watermark not
\* later than the first `now`, in every cycle the lower bound (the
\* watermark) is at most the upper bound (the `now` of the cycle), as
\* instants and as the filter's two timestamps, and the watermark, in
\* memory and on disk, never decreases.
C22_WindowOrderedWatermarkMonotone ==
    /\ [](outcome = "running" =>
            /\ ParseRFC3339(LastPollTimestamp) <= now
            /\ LastPollTimestamp <= FormatRFC3339(now))
    /\ [](requests >= 1 => params.gt <= params.le)
    /\ [][stateFile' >= stateFile /\ LastPollTimestamp' >= LastPollTimestamp]_vars

C22_Witness ==
    /\ cycle = 2
    /\ outcome = "ok"
    /\ cycleStart.sf > 0
    /\ stateFile > cycleStart.sf
    /\ params.gt < params.le

\* C23: whenever Rotate is called the channel is empty, GetAlerts is not
\* sending, and the consumer is not between receiving a record and the end
\* of its write.
C23_RotateNotDuringWrite ==
    pc = "rotate" =>
        /\ chnMessages = <<>>
        /\ toPush = 0
        /\ cpc # "handle"

\* C24: the windows of successive successful cycles join without gap or
\* overlap: the watermark changes only at the end of a successful cycle, to
\* that cycle's upper bound, and every cycle's lower bound is the watermark
\* as it stands, so it is the upper bound of the last successful cycle (or
\* the startup watermark) whatever failed cycles lie between.
C24_ContiguousWindows ==
    /\ [](requests >= 1 => params.gt = LowerBound(cycleStart.wm))
    /\ [](outcome \in {"running", "failed", "crashed"} =>
            LastPollTimestamp = cycleStart.wm)
    /\ [](outcome = "ok" => LowerBound(LastPollTimestamp) = params.le)
    /\ [][LastPollTimestamp' # LastPollTimestamp =>
            /\ outcome' = "ok"
            /\ LowerBound(LastPollTimestamp') = params.le
            /\ stateFile' = LastPollTimestamp']_vars
    /\ [][cycleStart' # cycleStart => cycleStart'.wm = LastPollTimestamp]_vars

C24_Witness ==
    /\ cycle = 2
    /\ prevCycle.outcome = "ok"
    /\ prevCycle.now < cycleStart.now
    /\ requests >= 1
    /\ params.gt = UpperBound(prevCycle.now)
    /\ params.gt > 0
    /\ outcome = "ok"

\* C25: the artifact rotated for a cycle with count n holds exactly the n
\* records that cycle's GetAlerts pushed, in push order: none of an earlier
\* cycle, none missing.
C25_ArtifactIsThisCycle ==
    pc = "output" => prevFile = [k \in 1..eventCount |-> <<cycle, k>>]

\* C26: the channel is closed at most once, by the scheduler when it is
\* between cycles and GetAlerts is not running; once it is closed the
\* scheduler has returned and nothing is sent on the channel any more.
C26_NoSendAfterClose ==
    /\ [](closed => (pc = "closed" /\ toPush = 0))
    /\ [][(closed' /\ ~closed) => (pc = "idle" /\ toPush = 0 /\ done)]_vars
    /\ [][closed => (closed' /\ Len(chnMessages') <= Len(chnMessages))]_vars

C26_Witness ==
    /\ closed
    /\ cycle = MaxCycles
    /\ count > 0
    /\ Len(chnMessages) > 0

\* C27: GetAlerts terminates against every server that draws its next
\* links from a finite set: it never goes on to request, for the second
\* time in one call, a link it has requested before (a server that answers
\* by the link would then answer as before, for ever).
C27_NoLinkRequestedTwice ==
    pc = "getn" =>
        \A i \in 1..(Len(pages) - 1) : pages[i].nextLink # response.NextLink

\* C28: login succeeds only with a non-empty bearer token, so that an
\* alerts GET is only ever sent with the token of the cycle's login; a
\* login response without access token fails the cycle before any GET.
C28_TokenBeforeFetch ==
    /\ pc = "get" => AccessToken # ""
    /\ requests >= 1 => AccessToken # ""

====
